---- MODULE Spec2Model ----
(***************************************************************************)
(* Model of the message routing and session-state engine of discordbot.py: *)
(* the channel registry (allowed_channel_ids), the session store           *)
(* (CounselingAgent._sessions), the completion calls offloaded with        *)
(* asyncio.to_thread, and the on_message dispatcher, whose invocations     *)
(* interleave at their await points on one event loop.                     *)
(*                                                                         *)
(* Strings are sequences of tokens: " " is one whitespace character, the   *)
(* other tokens are words without whitespace.  Decimal numbers inside a    *)
(* session id are sequences of digit tokens.                               *)
(***************************************************************************)
EXTENDS Integers, Sequences, FiniteSets, Bags, TLC

\* ------------------------------------------------------------------ bounds
\* number of on_message invocations that may be suspended at the same time
MaxTasks == 2
\* number of ChatSession objects model.start_chat may create in one run
MaxHandles == 2

\* ------------------------------------------------------- the environment
None == 0
BotId == 9
Users == {1}
Guild == 7
GuildChannelIds == {11}
\* config.ALLOWED_CHANNEL_IDS as parsed from the environment at startup
ALLOWED_CHANNEL_IDS == {}

MentionTok == "<@9>"
NameTok == "@mindcare"

DMChannel(u) == [type |-> "DMChannel", id |-> 20 + u]
TextChannel(c) == [type |-> "TextChannel", id |-> c]
NoChannel == [type |-> "None", id |-> None]

\* message bodies with the mention list the platform attaches to them
Bodies ==
  { [content |-> <<" ", " ">>, mentions |-> <<>>],
    [content |-> <<MentionTok, " ">>, mentions |-> <<BotId>>],
    [content |-> <<" ", "/JOIN">>, mentions |-> <<>>],
    [content |-> <<MentionTok, " ", "!leave">>, mentions |-> <<BotId>>],
    [content |-> <<"Reset", " ">>, mentions |-> <<>>],
    [content |-> <<MentionTok, " ", "Hi", " ", NameTok>>, mentions |-> <<BotId>>] }

\* the bodies that automated senders post: a command and a prompt
BotBodies ==
  { x \in Bodies : x.content \in { <<" ", "/JOIN">>, <<MentionTok, " ", "Hi", " ", NameTok>> } }

\* a message in a guild text channel: the author is a Member with guild
\* permissions; a message in a direct conversation: the author is a User,
\* which has no guild_permissions attribute, and message.guild is None
MessagesOf(b, bodies) ==
  { [bot |-> b, author |-> u, manage_channels |-> p, guild |-> Guild,
     channel |-> TextChannel(c), content |-> x.content, mentions |-> x.mentions] :
       u \in Users, p \in BOOLEAN, c \in GuildChannelIds, x \in bodies }
  \cup
  { [bot |-> b, author |-> u, manage_channels |-> FALSE, guild |-> None,
     channel |-> DMChannel(u), content |-> x.content, mentions |-> x.mentions] :
       u \in Users, x \in bodies }

\* the messages dispatched to on_message: those of human senders, and those
\* of automated senders that hold the manage-channels permission in a guild
Messages ==
  MessagesOf(FALSE, Bodies) \cup {m \in MessagesOf(TRUE, BotBodies) : m.manage_channels}

\* the interactions of the two slash commands, in the shape of a message
Interactions ==
  { [bot |-> FALSE, author |-> u, manage_channels |-> p, guild |-> Guild,
     channel |-> TextChannel(c), content |-> <<>>, mentions |-> <<>>] :
       u \in Users, p \in BOOLEAN, c \in GuildChannelIds }
  \cup
  { [bot |-> FALSE, author |-> u, manage_channels |-> FALSE, guild |-> None,
     channel |-> DMChannel(u), content |-> <<>>, mentions |-> <<>>] : u \in Users }

\* what chat.send_message can do: raise, or return a response whose .text
\* is None, blank, or a text with surrounding whitespace
Responses ==
  { [raises |-> TRUE, text |-> None, value |-> <<>>],
    [raises |-> FALSE, text |-> None, value |-> <<>>],
    [raises |-> FALSE, text |-> 1, value |-> <<>>],
    [raises |-> FALSE, text |-> 1, value |-> <<" ", " ">>],
    [raises |-> FALSE, text |-> 1, value |-> <<" ", "ok", " ">>] }

\* ------------------------------------------------------ the reply texts
TEXT_CMD_DM == "use this command in a server text channel"
TEXT_JOIN_DENIED == "could not verify permission, channel not registered"
TEXT_JOIN_ALREADY == "already talking in this channel"
TEXT_JOIN_OK == "set up to talk in this channel"
TEXT_LEAVE_DENIED == "could not verify permission, channel not deregistered"
TEXT_LEAVE_ABSENT == "this channel was not registered"
TEXT_LEAVE_OK == "stopped responding in this channel"
TEXT_PROMPT == "what would you like to talk about"
TEXT_RESET == "conversation history reset"
TEXT_APOLOGY == "sorry, cannot help right now, try again later"
TEXT_SLASH_JOIN_ALREADY == "already able to talk in this channel"
TEXT_SLASH_CONTEXT == "run this command in a text channel of a server"
TEXT_SLASH_JOIN_DENIED == "no permission to register the channel"
TEXT_SLASH_JOIN_NOID == "could not register this channel"
TEXT_SLASH_LEAVE_DENIED == "no permission to deregister the channel"
TEXT_SLASH_LEAVE_NOID == "could not deregister this channel"
GENERATED == "generated"

\* an outbound action: how it is sent, to which channel, and what
Out(how, ch, text, body) ==
  [how |-> how, channel |-> ch, text |-> text, body |-> body]

\* ------------------------------------------------------ string functions
RECURSIVE LStrip(_)
LStrip(s) ==
  IF s = <<>> THEN s
  ELSE IF Head(s) = " " THEN LStrip(Tail(s)) ELSE s

RECURSIVE RStrip(_)
RStrip(s) ==
  IF s = <<>> THEN s
  ELSE IF s[Len(s)] = " " THEN RStrip(SubSeq(s, 1, Len(s) - 1)) ELSE s

\* str.strip()
Strip(s) == RStrip(LStrip(s))

\* str.replace(tok, "")
Replace(s, tok) == SelectSeq(s, LAMBDA x : x # tok)

LowerTok(tok) ==
  CASE tok = "/JOIN" -> "/join"
    [] tok = "/Leave" -> "/leave"
    [] tok = "Reset" -> "reset"
    [] tok = "Hi" -> "hi"
    [] OTHER -> tok

\* str.lower()
Lower(s) == [i \in 1..Len(s) |-> LowerTok(s[i])]

Digit == <<"0", "1", "2", "3", "4", "5", "6", "7", "8", "9">>

\* str(n) for a number below 100
Str(n) == IF n < 10 THEN <<Digit[n + 1]>> ELSE <<Digit[(n \div 10) + 1], Digit[(n % 10) + 1]>>

\* ------------------------------------------------------------- the state
\* A ChatSession is modelled by its identity, the order of its creation: the
\* history it accumulates is kept inside the library object.
VARIABLES
  allowed_channel_ids,  \* the channel registry
  _sessions,            \* CounselingAgent._sessions: session id -> ChatSession
  started,              \* number of ChatSession objects created so far
  tasks,                \* the bag of suspended on_message invocations
  returned,             \* per session id: what _get_session returned since the last reset
  last                  \* the step just taken: handler, event, outbound actions

vars == <<allowed_channel_ids, _sessions, started, tasks, returned, last>>

\* the locals of an invocation of on_message that live across its awaits,
\* at its first suspension, the entry of typing()
Task(channel, prompt, session_id) ==
  [pc |-> "typing", channel |-> channel, prompt |-> prompt, session_id |-> session_id,
   chat |-> None, ok |-> FALSE, reply |-> <<>>]

\* the suspended invocations that are at pc
At(pc) == {task \in BagToSet(tasks) : task.pc = pc}

\* the bag of invocations with task resumed and suspended again as next
Resumed(task, next) == (tasks (-) SetToBag({task})) (+) SetToBag({next})

NoMessage ==
  [bot |-> FALSE, author |-> None, manage_channels |-> FALSE, guild |-> None,
   channel |-> NoChannel, content |-> <<>>, mentions |-> <<>>]

NoResponse == [raises |-> FALSE, text |-> None, value |-> <<>>]

\* a step of handler op, run for the event (message or interaction) e, that
\* emits the outbound actions sent
Step(op, e, sent) == [op |-> op, event |-> e, response |-> NoResponse, sent |-> sent]

\* the empty dict
EmptyDict == [k \in {} |-> None]

Init ==
  /\ allowed_channel_ids = ALLOWED_CHANNEL_IDS
  /\ _sessions = EmptyDict
  /\ started = 0
  /\ tasks = EmptyBag
  /\ returned = EmptyDict
  /\ last = Step("start", NoMessage, <<>>)

\* ---------------------------------------------------------------- helpers
\* the privilege check left out
_has_manage_channels_Anyone(actor) == TRUE

_has_manage_channels(actor) == actor.manage_channels

\* the direct-conversation case left out
_is_allowed_channel_RegistryOnly(channel, allowed) == channel.id \in allowed

_is_allowed_channel(channel, allowed) ==
  IF channel.type = "DMChannel" THEN TRUE
  ELSE channel.id \in allowed

\* the direct-conversation case left out
_should_respond_RegistryOnly(message, allowed) == message.channel.id \in allowed

\* the registry check left out
_should_respond_Always(message, allowed) == TRUE

_should_respond(message, allowed) ==
  IF message.channel.type = "DMChannel" THEN TRUE
  ELSE IF ~_is_allowed_channel(message.channel, allowed) THEN FALSE
  ELSE TRUE

RECURSIVE CleanMentions(_, _)
CleanMentions(prompt, mentions) ==
  IF mentions = <<>> THEN prompt
  ELSE IF Head(mentions) = BotId
       THEN CleanMentions(Strip(Replace(Strip(Replace(prompt, MentionTok)), NameTok)),
                          Tail(mentions))
       ELSE CleanMentions(prompt, Tail(mentions))

\* the first strip() left out
_clean_prompt_NoStrip(message) == CleanMentions(message.content, message.mentions)

_clean_prompt(message) == CleanMentions(Strip(message.content), message.mentions)

\* the labels and separators between the numbers left out
SessionId_NoSeparator(message) ==
  IF message.channel.type = "DMChannel"
  THEN <<"dm">> \o Str(message.author)
  ELSE <<"guild">> \o Str(message.guild) \o Str(message.channel.id)
         \o Str(message.author)

SessionId(message) ==
  IF message.channel.type = "DMChannel"
  THEN <<"dm:">> \o Str(message.author)
  ELSE <<"guild:">> \o Str(message.guild) \o <<":channel:">> \o Str(message.channel.id)
         \o <<":user:">> \o Str(message.author)

\* the lookup left out: every call starts a chat
_get_session_AlwaysNew(sessions, session_id, n) ==
  [chat |-> n + 1,
   sessions |-> [k \in DOMAIN sessions \cup {session_id} |->
                   IF k = session_id THEN n + 1 ELSE sessions[k]],
   started |-> n + 1]

\* CounselingAgent._get_session, with n ChatSession objects created so far:
\* the session it returns, the dict and the number of objects afterwards
_get_session(sessions, session_id, n) ==
  IF session_id \in DOMAIN sessions
  THEN [chat |-> sessions[session_id], sessions |-> sessions, started |-> n]
  ELSE [chat |-> n + 1,
        sessions |-> [k \in DOMAIN sessions \cup {session_id} |->
                        IF k = session_id THEN n + 1 ELSE sessions[k]],
        started |-> n + 1]

\* the del left out
reset_Keep(sessions, session_id) == sessions

\* the whole dict cleared
reset_Clear(sessions, session_id) == EmptyDict

\* CounselingAgent.reset
reset(sessions, session_id) ==
  IF session_id \in DOMAIN sessions
  THEN [k \in DOMAIN sessions \ {session_id} |-> sessions[k]]
  ELSE sessions

JoinTokens == { <<"!join">>, <<"/join">> }
LeaveTokens == { <<"!leave">>, <<"/leave">> }
ResetTokens == { <<"!reset">>, <<"reset">>, <<"リセット">> }

\* ------------------------------------------------------------ on_message
\* the invocation ends in this step, without a suspension
Finish(message, allowed, sessions, ret, sent) ==
  /\ allowed_channel_ids' = allowed
  /\ _sessions' = sessions
  /\ returned' = ret
  /\ last' = Step("on_message", message, sent)
  /\ UNCHANGED <<started, tasks>>

Send(channel, text) == <<Out("send", channel.id, text, <<>>)>>

\* the direct-conversation test left out of the join and leave commands
on_message_NoDirectCheck(message) ==
     LET raw_prompt == _clean_prompt(message)
         command == Lower(raw_prompt)
         channel == message.channel
         isDM == channel.type = "DMChannel"
         session_id == SessionId(message)
         Same(sent) == Finish(message, allowed_channel_ids, _sessions, returned, sent)
     IN
     IF message.bot THEN Same(<<>>)
     ELSE IF command \in JoinTokens THEN
       IF message.guild = None \/ ~_has_manage_channels(message)
         THEN Same(Send(channel, TEXT_JOIN_DENIED))
       ELSE IF channel.id \in allowed_channel_ids
         THEN Same(Send(channel, TEXT_JOIN_ALREADY))
       ELSE Finish(message, allowed_channel_ids \cup {channel.id}, _sessions, returned,
                   Send(channel, TEXT_JOIN_OK))
     ELSE IF command \in LeaveTokens THEN
       IF message.guild = None \/ ~_has_manage_channels(message)
         THEN Same(Send(channel, TEXT_LEAVE_DENIED))
       ELSE IF channel.id \notin allowed_channel_ids
         THEN Same(Send(channel, TEXT_LEAVE_ABSENT))
       ELSE Finish(message, allowed_channel_ids \ {channel.id}, _sessions, returned,
                   Send(channel, TEXT_LEAVE_OK))
     ELSE IF ~_should_respond(message, allowed_channel_ids) THEN Same(<<>>)
     ELSE IF raw_prompt = <<>> THEN Same(Send(channel, TEXT_PROMPT))
     ELSE IF Lower(raw_prompt) \in ResetTokens THEN
       Finish(message, allowed_channel_ids, reset(_sessions, session_id),
              [k \in DOMAIN returned \ {session_id} |-> returned[k]],
              Send(channel, TEXT_RESET))
     ELSE
       /\ BagCardinality(tasks) < MaxTasks
       /\ tasks' = tasks (+) SetToBag({Task(channel, raw_prompt, session_id)})
       /\ last' = Step("on_message", message, <<>>)
       /\ UNCHANGED <<allowed_channel_ids, _sessions, started, returned>>

\* on_message from its entry to its first suspension: a send followed by
\* return, a silent return, or the entry of the typing() context
on_message(message) ==
     LET raw_prompt == _clean_prompt(message)
         command == Lower(raw_prompt)
         channel == message.channel
         isDM == channel.type = "DMChannel"
         session_id == SessionId(message)
         Same(sent) == Finish(message, allowed_channel_ids, _sessions, returned, sent)
     IN
     IF message.bot THEN Same(<<>>)
     ELSE IF command \in JoinTokens THEN
       IF isDM THEN Same(Send(channel, TEXT_CMD_DM))
       ELSE IF message.guild = None \/ ~_has_manage_channels(message)
         THEN Same(Send(channel, TEXT_JOIN_DENIED))
       ELSE IF channel.id \in allowed_channel_ids
         THEN Same(Send(channel, TEXT_JOIN_ALREADY))
       ELSE Finish(message, allowed_channel_ids \cup {channel.id}, _sessions, returned,
                   Send(channel, TEXT_JOIN_OK))
     ELSE IF command \in LeaveTokens THEN
       IF isDM THEN Same(Send(channel, TEXT_CMD_DM))
       ELSE IF message.guild = None \/ ~_has_manage_channels(message)
         THEN Same(Send(channel, TEXT_LEAVE_DENIED))
       ELSE IF channel.id \notin allowed_channel_ids
         THEN Same(Send(channel, TEXT_LEAVE_ABSENT))
       ELSE Finish(message, allowed_channel_ids \ {channel.id}, _sessions, returned,
                   Send(channel, TEXT_LEAVE_OK))
     ELSE IF ~_should_respond(message, allowed_channel_ids) THEN Same(<<>>)
     ELSE IF raw_prompt = <<>> THEN Same(Send(channel, TEXT_PROMPT))
     ELSE IF Lower(raw_prompt) \in ResetTokens THEN
       Finish(message, allowed_channel_ids, reset(_sessions, session_id),
              [k \in DOMAIN returned \ {session_id} |-> returned[k]],
              Send(channel, TEXT_RESET))
     ELSE
       /\ BagCardinality(tasks) < MaxTasks
       /\ tasks' = tasks (+) SetToBag({Task(channel, raw_prompt, session_id)})
       /\ last' = Step("on_message", message, <<>>)
       /\ UNCHANGED <<allowed_channel_ids, _sessions, started, returned>>

\* on_message resumes inside typing(): assistant.generate looks the session
\* up and hands chat.send_message to a worker thread
\* the completion calls serialized: none starts while another is in flight
generate_Serialized(task) ==
  /\ task \in At("typing")
  /\ At("inflight") = {}
  /\ LET session_id == task.session_id
         got == _get_session(_sessions, session_id, started)
     IN
     /\ got.started <= MaxHandles
     /\ _sessions' = got.sessions
     /\ started' = got.started
     /\ returned' = [k \in DOMAIN returned \cup {session_id} |->
                       IF k = session_id THEN got.chat ELSE returned[k]]
     /\ tasks' = Resumed(task, [task EXCEPT !.pc = "inflight", !.chat = got.chat])
     /\ last' = Step("generate", NoMessage, <<>>)
     /\ UNCHANGED allowed_channel_ids

generate(task) ==
  /\ task \in At("typing")
  /\ LET session_id == task.session_id
         got == _get_session(_sessions, session_id, started)
     IN
     /\ got.started <= MaxHandles
     /\ _sessions' = got.sessions
     /\ started' = got.started
     /\ returned' = [k \in DOMAIN returned \cup {session_id} |->
                       IF k = session_id THEN got.chat ELSE returned[k]]
     /\ tasks' = Resumed(task, [task EXCEPT !.pc = "inflight", !.chat = got.chat])
     /\ last' = Step("generate", NoMessage, <<>>)
     /\ UNCHANGED allowed_channel_ids

\* the blank-text check left out
Invoked_NoBlankCheck(response) ==
  LET text == Strip(IF response.text = None THEN <<>> ELSE response.value)
  IN IF response.raises
     THEN [ok |-> FALSE, reply |-> <<>>]
     ELSE [ok |-> TRUE, reply |-> text]

\* _invoke's result for a response: the stripped text, or failure
Invoked(response) ==
  LET text == Strip(IF response.text = None THEN <<>> ELSE response.value)
  IN IF response.raises \/ text = <<>>
     THEN [ok |-> FALSE, reply |-> <<>>]
     ELSE [ok |-> TRUE, reply |-> text]

\* the worker thread runs _invoke to its end; the ChatSession is not used
\* again by this invocation
\* the call stores its session again when it returns
_invoke_Reinsert(task, response) ==
  /\ task \in At("inflight")
  /\ LET result == Invoked(response)
     IN
     /\ tasks' = Resumed(task, [task EXCEPT !.pc = "returned", !.chat = None,
                                             !.ok = result.ok, !.reply = result.reply])
     /\ _sessions' = [k \in DOMAIN _sessions \cup {task.session_id} |->
                        IF k = task.session_id THEN task.chat ELSE _sessions[k]]
     /\ last' = [Step("_invoke", NoMessage, <<>>) EXCEPT !.response = response]
     /\ UNCHANGED <<allowed_channel_ids, started, returned>>

_invoke(task, response) ==
  /\ task \in At("inflight")
  /\ LET result == Invoked(response)
     IN
     /\ tasks' = Resumed(task, [task EXCEPT !.pc = "returned", !.chat = None,
                                             !.ok = result.ok, !.reply = result.reply])
     /\ last' = [Step("_invoke", NoMessage, <<>>) EXCEPT !.response = response]
     /\ UNCHANGED <<allowed_channel_ids, _sessions, started, returned>>

\* what on_message sends once assistant.generate has returned or raised
Delivery(task) ==
  IF ~task.ok THEN Send(task.channel, TEXT_APOLOGY)
  ELSE IF task.channel.type = "DMChannel"
       THEN <<Out("send", task.channel.id, GENERATED, task.reply)>>
       ELSE <<Out("reply", task.channel.id, GENERATED, task.reply)>>

\* on_message resumes after the await of assistant.generate
deliver(task) ==
  /\ task \in At("returned")
  /\ tasks' = tasks (-) SetToBag({task})
  /\ last' = Step("deliver", NoMessage, Delivery(task))
  /\ UNCHANGED <<allowed_channel_ids, _sessions, started, returned>>

\* ------------------------------------------------------ the slash commands
Respond(interaction, text) == <<Out("interaction", interaction.channel.id, text, <<>>)>>

\* the slash commands forget the sessions
Command_Forget(op, interaction, allowed, text) ==
  /\ allowed_channel_ids' = allowed
  /\ _sessions' = EmptyDict
  /\ last' = Step(op, interaction, Respond(interaction, text))
  /\ UNCHANGED <<started, tasks, returned>>

Command(op, interaction, allowed, text) ==
  /\ allowed_channel_ids' = allowed
  /\ last' = Step(op, interaction, Respond(interaction, text))
  /\ UNCHANGED <<_sessions, started, tasks, returned>>

\* the permission check left out of the slash command
register_channel_NoPrivilege(interaction) ==
  LET channel == interaction.channel
      Say(text) == Command("register_channel", interaction, allowed_channel_ids, text)
  IN
  IF channel.type = "None" \/ channel.type = "DMChannel" THEN Say(TEXT_SLASH_CONTEXT)
  ELSE IF channel.id \in allowed_channel_ids THEN Say(TEXT_SLASH_JOIN_ALREADY)
  ELSE Command("register_channel", interaction, allowed_channel_ids \cup {channel.id},
               TEXT_JOIN_OK)

register_channel(interaction) ==
  LET channel == interaction.channel
      Say(text) == Command("register_channel", interaction, allowed_channel_ids, text)
  IN
  IF channel.type = "None" \/ channel.type = "DMChannel" THEN Say(TEXT_SLASH_CONTEXT)
  ELSE IF ~_has_manage_channels(interaction) THEN Say(TEXT_SLASH_JOIN_DENIED)
  ELSE IF channel.id = None THEN Say(TEXT_SLASH_JOIN_NOID)
  ELSE IF channel.id \in allowed_channel_ids THEN Say(TEXT_SLASH_JOIN_ALREADY)
  ELSE Command("register_channel", interaction, allowed_channel_ids \cup {channel.id},
               TEXT_JOIN_OK)

unregister_channel(interaction) ==
  LET channel == interaction.channel
      Say(text) == Command("unregister_channel", interaction, allowed_channel_ids, text)
  IN
  IF channel.type = "None" \/ channel.type = "DMChannel" THEN Say(TEXT_SLASH_CONTEXT)
  ELSE IF ~_has_manage_channels(interaction) THEN Say(TEXT_SLASH_LEAVE_DENIED)
  ELSE IF channel.id = None THEN Say(TEXT_SLASH_LEAVE_NOID)
  ELSE IF channel.id \notin allowed_channel_ids THEN Say(TEXT_LEAVE_ABSENT)
  ELSE Command("unregister_channel", interaction, allowed_channel_ids \ {channel.id},
               TEXT_LEAVE_OK)

\* ----------------------------------------------------- the specification
Next ==
  \/ \E message \in Messages : on_message(message)
  \/ \E task \in At("typing") : generate(task)
  \/ \E task \in At("inflight"), response \in Responses : _invoke(task, response)
  \/ \E task \in At("returned") : deliver(task)
  \/ \E interaction \in Interactions : register_channel(interaction)
  \/ \E interaction \in Interactions : unregister_channel(interaction)

Spec == Init /\ [][Next]_vars

\* ------------------------------------------- one session that is served
\* The event loop resumes a coroutine that is ready, the thread pool runs the
\* call handed to it, and the completion service answers the calls of the
\* sessions of the guild channels; nothing is assumed of the calls of the
\* direct conversations, which may stay in flight for ever.
ServedKeys == {SessionId(message) : message \in {m \in Messages : m.channel.type = "TextChannel"}}

Progress(k) ==
  \/ \E task \in At("typing") : task.session_id = k /\ generate(task)
  \/ \E task \in At("inflight"), response \in Responses :
       task.session_id = k /\ _invoke(task, response)
  \/ \E task \in At("returned") : task.session_id = k /\ deliver(task)

FairSpec == Spec /\ \A k \in ServedKeys : WF_vars(Progress(k))

\* ------------------------------------- the administrative commands alone
\* The join and leave handlers are functions of the registry and of the
\* message or interaction: they are run here from every registry over two
\* guild channels, with a session store that is empty or holds one session.
AdminChannelIds == {11, 12}

\* one body for each of the four text tokens
AdminBodies ==
  { [content |-> <<"!join">>, mentions |-> <<>>],
    [content |-> <<" ", "/JOIN">>, mentions |-> <<>>],
    [content |-> <<MentionTok, " ", "!leave">>, mentions |-> <<BotId>>],
    [content |-> <<"/Leave">>, mentions |-> <<>>] }

AdminMessages ==
  { [bot |-> FALSE, author |-> u, manage_channels |-> p, guild |-> Guild,
     channel |-> TextChannel(c), content |-> x.content, mentions |-> x.mentions] :
       u \in Users, p \in BOOLEAN, c \in AdminChannelIds, x \in AdminBodies }
  \cup
  { [bot |-> FALSE, author |-> u, manage_channels |-> FALSE, guild |-> None,
     channel |-> DMChannel(u), content |-> x.content, mentions |-> x.mentions] :
       u \in Users, x \in AdminBodies }

AdminInteractions ==
  { [bot |-> FALSE, author |-> u, manage_channels |-> p, guild |-> Guild,
     channel |-> TextChannel(c), content |-> <<>>, mentions |-> <<>>] :
       u \in Users, p \in BOOLEAN, c \in AdminChannelIds }
  \cup
  { [bot |-> FALSE, author |-> u, manage_channels |-> FALSE, guild |-> None,
     channel |-> DMChannel(u), content |-> <<>>, mentions |-> <<>>] : u \in Users }

\* the session stores the commands are run on: the empty one, and the one
\* left by a first generation request in a direct conversation
AdminStores ==
  { [chat |-> None, sessions |-> EmptyDict, started |-> 0] }
    \cup { _get_session(EmptyDict, <<"dm:">> \o Str(u), 0) : u \in Users }

InitAdmin ==
  /\ allowed_channel_ids \in SUBSET AdminChannelIds
  /\ \E store \in AdminStores :
       /\ _sessions = store.sessions
       /\ started = store.started
       /\ returned = store.sessions
  /\ tasks = EmptyBag
  /\ last = Step("start", NoMessage, <<>>)

NextAdmin ==
  \/ \E message \in AdminMessages : on_message(message)
  \/ \E interaction \in AdminInteractions : register_channel(interaction)
  \/ \E interaction \in AdminInteractions : unregister_channel(interaction)

SpecAdmin == InitAdmin /\ [][NextAdmin]_vars

\* ------------------------------------------ the session-key derivation alone
\* The session id is a function of the message: it is derived here for pairs
\* of messages over guilds, channels and users whose decimal numbers are
\* prefixes of one another.
KeyGuilds == {7, 71}
KeyChannelIds == {1, 11}
KeyUsers == {1, 2, 11}

KeyMessages ==
  { [bot |-> FALSE, author |-> u, manage_channels |-> FALSE, guild |-> g,
     channel |-> TextChannel(c), content |-> <<"Hi">>, mentions |-> <<>>] :
       u \in KeyUsers, g \in KeyGuilds, c \in KeyChannelIds }
  \cup
  { [bot |-> FALSE, author |-> u, manage_channels |-> FALSE, guild |-> None,
     channel |-> DMChannel(u), content |-> <<"Hi">>, mentions |-> <<>>] : u \in KeyUsers }

\* on_message computes session_id for message a and for message b
derive_session_id(a, b) ==
  /\ last' = Step("session_id", <<a, b>>, <<SessionId(a), SessionId(b)>>)
  /\ UNCHANGED <<allowed_channel_ids, _sessions, started, tasks, returned>>

NextKeys == \E a \in KeyMessages, b \in KeyMessages : derive_session_id(a, b)

SpecKeys == Init /\ [][NextKeys]_vars

\* ------------------------------------------------------------ the claims
\* every session id a message of the environment can have
SessionIds == {SessionId(message) : message \in Messages}

\* the completion calls in flight for session id k
InFlight(k) == {task \in At("inflight") : task.session_id = k}

\* the ChatSession objects alive for session id k: the one stored and those
\* held by calls in flight
HandlesOf(k) ==
  (IF k \in DOMAIN _sessions THEN {_sessions[k]} ELSE {})
    \cup {task.chat : task \in InFlight(k)}

\* the invocations that a step suspended anew, and those it ended or resumed
Entered == BagToSet(tasks' (-) tasks)
Left == BagToSet(tasks (-) tasks')

\* C1: in every reachable state, each session id has at most one completion
\* call in flight.
C1_SingleFlight ==
  \A k \in SessionIds :
    /\ Cardinality(InFlight(k)) <= 1
    /\ \A task \in InFlight(k) : CopiesIn(task, tasks) <= 1

\* C2: in every reachable state, the handle stored for a session id and the
\* handles held by the calls in flight for it are at most one object.
C2_OneHandlePerKey == \A k \in SessionIds : Cardinality(HandlesOf(k)) <= 1

\* C3: between two resets of a session id, _get_session returns the same
\* handle at every call for it: what it returned last for a session id only
\* changes after a reset has forgotten it.
C3_GetOrCreateStable ==
  [][\A k \in DOMAIN returned \cap DOMAIN returned' : returned'[k] = returned[k]]_vars

\* two calls for one session id in flight on the same handle
C3_Witness ==
  \E task \in At("inflight") : CopiesIn(task, tasks) = 2 /\ task.chat = 1

isAllowed(c, allowed) == _is_allowed_channel(TextChannel(c), allowed)

\* step is a join (leave) command, text token or slash command, of a
\* privileged actor in guild channel c
ByPrivileged(step, c, tokens, slash) ==
  /\ step.op \in {"on_message", slash}
  /\ step.event.channel = TextChannel(c)
  /\ step.event.manage_channels
  /\ ~step.event.bot
  /\ step.op = "on_message" => Lower(_clean_prompt(step.event)) \in tokens

\* step is a join command of a privileged actor in c, acknowledged as success
JoinSucceeded(step, c) ==
  /\ ByPrivileged(step, c, JoinTokens, "register_channel")
  /\ \E how \in {"send", "interaction"} : step.sent = <<Out(how, c, TEXT_JOIN_OK, <<>>)>>

\* step is a leave command of a privileged actor in c, acknowledged as success
LeaveSucceeded(step, c) ==
  /\ ByPrivileged(step, c, LeaveTokens, "unregister_channel")
  /\ \E how \in {"send", "interaction"} : step.sent = <<Out(how, c, TEXT_LEAVE_OK, <<>>)>>

\* C4: a channel outside the initial allow-list is not allowed at the start,
\* the state no step has led to; it becomes allowed only in a step that is a
\* successful join by a privileged actor in it, a privileged join in a channel
\* that is not allowed makes it allowed and is acknowledged as success, and it
\* stops being allowed only in a step that is a successful leave by a
\* privileged actor in it.
C4_RegistryLifecycle ==
  [][\A c \in GuildChannelIds \ ALLOWED_CHANNEL_IDS :
       LET before == isAllowed(c, allowed_channel_ids)
           after == isAllowed(c, allowed_channel_ids')
       IN /\ last.op = "start" => ~before
          /\ (~before /\ after) => JoinSucceeded(last', c)
          /\ (~before /\ ByPrivileged(last', c, JoinTokens, "register_channel"))
               => (after /\ JoinSucceeded(last', c))
          /\ (before /\ ~after) => LeaveSucceeded(last', c)]_vars

\* a channel outside the initial allow-list has just been registered
C4_Witness ==
  \E c \in GuildChannelIds \ ALLOWED_CHANNEL_IDS :
    isAllowed(c, allowed_channel_ids) /\ JoinSucceeded(last, c)

\* C5: a generated reply sent to a guild channel goes to a channel that is in
\* the registry when it is sent.
C5_RepliesOnlyToRegistered ==
  \A i \in 1..Len(last.sent) :
    (last.sent[i].text = GENERATED /\ last.sent[i].how = "reply")
      => last.sent[i].channel \in allowed_channel_ids

\* the message is from an automated sender, or it is in a guild channel
\* outside the registry and its normalized body is none of the tokens
Dropped(message, allowed, tokens) ==
  \/ message.bot
  \/ /\ message.channel.type # "DMChannel"
     /\ message.channel.id \notin allowed
     /\ Lower(_clean_prompt(message)) \notin tokens

\* an invocation of on_message ends in this step without an outbound action
Silent == last'.op = "on_message" /\ Entered = {} /\ last'.sent = <<>>

\* C6 as stated: an invocation ends without an outbound action only for a
\* message of an automated sender or for a message that is no command (join,
\* leave, reset) in an unregistered guild channel.
C6_SilentOnlyNonCommand ==
  [][Silent => Dropped(last'.event, allowed_channel_ids,
                       JoinTokens \cup LeaveTokens \cup ResetTokens)]_vars

\* C6 amended: no step emits two outbound actions; an invocation of
\* on_message either ends at once, with one outbound action or, only for a
\* message of an automated sender or a message other than a join or leave
\* command in an unregistered guild channel, with none, or it suspends with
\* none, stays silent while its completion call runs, and ends with exactly
\* one when it is resumed.
C6_OneOutcome ==
  [][/\ Len(last'.sent) <= 1
     /\ last'.op = "on_message" =>
          IF Entered # {}
          THEN last'.sent = <<>> /\ BagCardinality(tasks') = BagCardinality(tasks) + 1
          ELSE tasks' = tasks
     /\ Silent => Dropped(last'.event, allowed_channel_ids, JoinTokens \cup LeaveTokens)
     /\ last'.op \in {"generate", "_invoke"} =>
          last'.sent = <<>> /\ BagCardinality(tasks') = BagCardinality(tasks)
     /\ last'.op = "deliver" =>
          Len(last'.sent) = 1 /\ BagCardinality(tasks') = BagCardinality(tasks) - 1]_vars

\* a reset command of a human sender in an unregistered guild channel has
\* just been dropped without a reply
C6_Witness ==
  /\ last.op = "on_message"
  /\ ~last.event.bot
  /\ Lower(_clean_prompt(last.event)) \in ResetTokens
  /\ last.event.channel.id \notin allowed_channel_ids
  /\ last.sent = <<>>
  /\ tasks = EmptyBag

\* the completion call fails: it raises, or its text is blank once trimmed
Failing(response) ==
  \/ response.raises
  \/ response.text = None
  \/ Strip(response.value) = <<>>

\* C7: a completion call that raises or returns blank text ends as a failure
\* of its invocation, and an invocation whose call failed sends the apology
\* text, and nothing else, when it is resumed.
C7_FailuresCollapsed ==
  [][/\ (last'.op = "_invoke" /\ Failing(last'.response))
          => \A task \in Entered : ~task.ok
     /\ last'.op = "deliver"
          => \A task \in Left :
               ~task.ok => last'.sent = <<Out("send", task.channel.id, TEXT_APOLOGY, <<>>)>>]_vars

\* the apology has just been sent for a failed call
C7_Witness ==
  /\ last.op = "deliver"
  /\ Len(last.sent) = 1
  /\ last.sent[1].text = TEXT_APOLOGY

\* the message is of a human sender and its body is whitespace only
Whitespace(message) == ~message.bot /\ Strip(message.content) = <<>>

\* C8 as stated: every whitespace-only message of a human sender is answered
\* with the prompting reply.
C8_WhitespaceAlwaysPrompted ==
  (last.op = "on_message" /\ Whitespace(last.event))
    => last.sent = <<Out("send", last.event.channel.id, TEXT_PROMPT, <<>>)>>

\* C8 amended: a whitespace-only message of a human sender in a direct
\* conversation or in a registered channel starts no generation call, creates
\* no session handle and is answered with the prompting reply.
C8_WhitespacePrompted ==
  [][(/\ last'.op = "on_message"
      /\ Whitespace(last'.event)
      /\ _is_allowed_channel(last'.event.channel, allowed_channel_ids))
       => /\ last'.sent = <<Out("send", last'.event.channel.id, TEXT_PROMPT, <<>>)>>
          /\ UNCHANGED <<tasks, _sessions, started>>]_vars

\* a whitespace-only message in a registered guild channel has been answered
C8_Witness ==
  /\ last.op = "on_message"
  /\ Whitespace(last.event)
  /\ last.event.channel.type = "TextChannel"
  /\ Len(last.sent) = 1
  /\ last.sent[1].text = TEXT_PROMPT

\* the step just taken handled a reset command for session id k
ResetDone(k) ==
  /\ last.op = "on_message"
  /\ SessionId(last.event) = k
  /\ last.sent = <<Out("send", last.event.channel.id, TEXT_RESET, <<>>)>>

\* C9: a reset command leaves no handle stored for its session id; a session
\* id without a stored handle gets one only when a generation request for it
\* is submitted, and that handle is a newly created object, different from
\* every object that existed before, on which the request runs.
C9_ResetThenFresh ==
  [][\A k \in SessionIds :
       /\ ResetDone(k)' => k \notin DOMAIN _sessions'
       /\ (k \notin DOMAIN _sessions /\ k \in DOMAIN _sessions') =>
            /\ last'.op = "generate"
            /\ _sessions'[k] = started + 1
            /\ started' = started + 1
            /\ \A task \in BagToSet(tasks) : task.chat # _sessions'[k]
            /\ \A j \in DOMAIN _sessions : _sessions[j] # _sessions'[k]
            /\ \E task \in Entered :
                 task.pc = "inflight" /\ task.session_id = k /\ task.chat = _sessions'[k]]_vars

\* a call from before a reset is still in flight on the removed handle while
\* the request after the reset runs on the new one
C9_Witness ==
  \E k \in SessionIds :
    /\ k \in DOMAIN _sessions
    /\ _sessions[k] = 2
    /\ \E old \in InFlight(k) : old.chat = 1
    /\ \E new \in InFlight(k) : new.chat = 2

\* C10: on every store and for every session id, reset leaves no handle for
\* the session id, leaves every other entry as it was, and a second reset
\* changes nothing.
C10_ResetIdempotent ==
  \A k \in SessionIds :
    LET once == reset(_sessions, k)
    IN /\ k \notin DOMAIN once
       /\ DOMAIN once = DOMAIN _sessions \ {k}
       /\ \A j \in DOMAIN once : once[j] = _sessions[j]
       /\ reset(once, k) = once

\* a reset has just removed one session's handle from a store that holds
\* another session's handle
C10_Witness ==
  \E k \in SessionIds :
    /\ ResetDone(k)
    /\ k \notin DOMAIN _sessions
    /\ DOMAIN _sessions # {}
    /\ started = 2

\* the step is a text command with one of the tokens, sent by a human sender
TextCommand(step, tokens) ==
  /\ step.op = "on_message"
  /\ ~step.event.bot
  /\ Lower(_clean_prompt(step.event)) \in tokens

\* C11: a join or leave text command of an actor without the manage-channels
\* privilege in a guild channel leaves the registry as it was, whatever it
\* holds, and is answered with one reply, the permission-failure text of the
\* command.
C11_UnprivilegedDenied ==
  [][\A tokens \in {JoinTokens, LeaveTokens} :
       (/\ TextCommand(last', tokens)
        /\ last'.event.channel.type = "TextChannel"
        /\ ~last'.event.manage_channels)
         => /\ allowed_channel_ids' = allowed_channel_ids
            /\ last'.sent =
                 <<Out("send", last'.event.channel.id,
                       IF tokens = JoinTokens THEN TEXT_JOIN_DENIED ELSE TEXT_LEAVE_DENIED,
                       <<>>)>>]_vars

\* an unprivileged join has just been denied in a channel that is registered,
\* next to another that is not
C11_Witness ==
  /\ TextCommand(last, JoinTokens)
  /\ ~last.event.manage_channels
  /\ last.event.channel.type = "TextChannel"
  /\ last.event.channel.id \in allowed_channel_ids
  /\ allowed_channel_ids # AdminChannelIds
  /\ Len(last.sent) = 1
  /\ last.sent[1].text = TEXT_JOIN_DENIED

\* C12: a direct conversation is allowed in every registry state, before and
\* after every step; a message of a human sender in a direct conversation
\* whose normalized body is not empty and is no command suspends its
\* invocation at the generation request, without a reply of its own, and the
\* request of a suspended invocation is a completion call for its session id.
C12_DirectAlwaysAllowed ==
  [][/\ \A u \in Users :
          /\ _is_allowed_channel(DMChannel(u), allowed_channel_ids)
          /\ _is_allowed_channel(DMChannel(u), allowed_channel_ids')
          /\ _is_allowed_channel(DMChannel(u), {})
     /\ (/\ last'.op = "on_message"
         /\ ~last'.event.bot
         /\ last'.event.channel.type = "DMChannel"
         /\ _clean_prompt(last'.event) # <<>>
         /\ Lower(_clean_prompt(last'.event)) \notin JoinTokens \cup LeaveTokens \cup ResetTokens)
          => /\ last'.sent = <<>>
             /\ Entered = {Task(last'.event.channel, _clean_prompt(last'.event),
                                SessionId(last'.event))}
             /\ BagCardinality(tasks') = BagCardinality(tasks) + 1
     /\ last'.op = "generate"
          => \E task \in Left :
               /\ task.pc = "typing"
               /\ Entered = {[task EXCEPT !.pc = "inflight", !.chat = _sessions'[task.session_id]]}]_vars

\* a message in a direct conversation has suspended at its generation
\* request while the registry is empty
C12_Witness ==
  /\ last.op = "on_message"
  /\ last.event.channel.type = "DMChannel"
  /\ allowed_channel_ids = {}
  /\ \E task \in At("typing") : task.channel = last.event.channel /\ task.prompt = <<"Hi">>

\* what the session id is derived from
KeyInputs(message) ==
  IF message.channel.type = "DMChannel"
  THEN <<"direct", message.author>>
  ELSE <<"channel", message.guild, message.channel.id, message.author>>

\* C13: the session ids derived for two messages are equal exactly when the
\* messages agree in conversation kind, guild, channel and user, and deriving
\* one again gives the same id.
C13_KeysCollisionFree ==
  last.op = "session_id" =>
    LET a == last.event[1]
        b == last.event[2]
    IN /\ (last.sent[1] = last.sent[2]) <=> (KeyInputs(a) = KeyInputs(b))
       /\ SessionId(a) = last.sent[1]
       /\ SessionId(b) = last.sent[2]

\* two channel conversations whose channel and user numbers concatenate to
\* the same digits have got different session ids
C13_Witness ==
  /\ last.op = "session_id"
  /\ last.event[1].guild = 7 /\ last.event[2].guild = 7
  /\ last.event[1].channel.id = 1 /\ last.event[1].author = 11
  /\ last.event[2].channel.id = 11 /\ last.event[2].author = 1
  /\ last.sent[1] # last.sent[2]

\* the outcome class a reply text stands for
OutcomeClass(text) ==
  CASE text \in {TEXT_CMD_DM, TEXT_SLASH_CONTEXT} -> "invalid context"
    [] text \in {TEXT_JOIN_DENIED, TEXT_LEAVE_DENIED,
                 TEXT_SLASH_JOIN_DENIED, TEXT_SLASH_LEAVE_DENIED} -> "permission denied"
    [] text \in {TEXT_JOIN_ALREADY, TEXT_SLASH_JOIN_ALREADY, TEXT_LEAVE_ABSENT} -> "no change"
    [] text \in {TEXT_JOIN_OK, TEXT_LEAVE_OK} -> "success"
    [] OTHER -> "other"

OutcomeClasses == {"invalid context", "permission denied", "no change", "success"}

\* the step leaves the registry as allowed
Leaves(allowed) == allowed_channel_ids' = allowed

\* the step sends one reply, of outcome class k
Replies(k) == Len(last'.sent) = 1 /\ OutcomeClass(last'.sent[1].text) = k

\* the text message with body x of the actor and channel of an interaction
TextOf(interaction, x) ==
  [interaction EXCEPT !.content = x.content, !.mentions = x.mentions]

\* the bodies of AdminBodies that are a token of tokens
BodiesOf(tokens) == {x \in AdminBodies : Lower(Strip(Replace(x.content, MentionTok))) \in tokens}

\* C14: from every registry, for every actor and channel, the slash command
\* and each text token of the same command lead to the same registry and to
\* the same outcome class.  The registries are those of the initial states
\* and of the states a slash command has led to, which are all of them.
C14_SurfacesEquivalent ==
  last.op # "on_message" =>
  \A interaction \in AdminInteractions :
    /\ \A x \in BodiesOf(JoinTokens) :
         /\ \E allowed \in SUBSET AdminChannelIds :
              /\ ENABLED (on_message(TextOf(interaction, x)) /\ Leaves(allowed))
              /\ ENABLED (register_channel(interaction) /\ Leaves(allowed))
         /\ \E k \in OutcomeClasses :
              /\ ENABLED (on_message(TextOf(interaction, x)) /\ Replies(k))
              /\ ENABLED (register_channel(interaction) /\ Replies(k))
    /\ \A x \in BodiesOf(LeaveTokens) :
         /\ \E allowed \in SUBSET AdminChannelIds :
              /\ ENABLED (on_message(TextOf(interaction, x)) /\ Leaves(allowed))
              /\ ENABLED (unregister_channel(interaction) /\ Leaves(allowed))
         /\ \E k \in OutcomeClasses :
              /\ ENABLED (on_message(TextOf(interaction, x)) /\ Replies(k))
              /\ ENABLED (unregister_channel(interaction) /\ Replies(k))

\* the slash command has just registered a channel, and the text token sent
\* there now by the same actor is answered as already registered
C14_Witness ==
  /\ last.op = "register_channel"
  /\ last.sent[1].text = TEXT_JOIN_OK
  /\ ENABLED (on_message(TextOf(last.event, [content |-> <<"!join">>, mentions |-> <<>>]))
              /\ Leaves(allowed_channel_ids) /\ Replies("no change"))

\* the session id of user u in guild channel c
ChannelKey(c, u) == SessionId([author |-> u, guild |-> Guild, channel |-> TextChannel(c)])

\* an invocation for session id k is suspended
Pending(k) == \E task \in BagToSet(tasks) : task.session_id = k

\* the reply of an invocation has just been sent to guild channel c
Delivered(c) ==
  /\ last.op = "deliver"
  /\ Len(last.sent) = 1
  /\ last.sent[1].channel = c

\* no ChatSession object is left for session id k within the bound MaxHandles
Exhausted(k) == k \notin DOMAIN _sessions /\ started >= MaxHandles

\* the message is of a human sender and its normalized body is empty or a
\* join, leave or reset token
Quick(message) ==
  /\ ~message.bot
  /\ \/ _clean_prompt(message) = <<>>
     \/ Lower(_clean_prompt(message)) \in JoinTokens \cup LeaveTokens \cup ResetTokens

\* C15: whatever the calls of the direct conversations do, were it never to
\* return, an invocation suspended for a session of a guild channel gets its
\* call started and returned and its reply sent, unless the bound on the
\* ChatSession objects of a run is used up; and a join, leave, reset or
\* empty message dispatched while a call is in flight is processed to its end
\* in that step: it suspends nothing, leaves the suspended invocations as
\* they are, and sends its one reply unless it is dropped as a message of an
\* unregistered channel.
C15_OthersNotStalled ==
  /\ \A c \in GuildChannelIds, u \in Users :
       Pending(ChannelKey(c, u)) ~> (Delivered(c) \/ Exhausted(ChannelKey(c, u)))
  /\ [][(/\ last'.op = "on_message"
         /\ Quick(last'.event)
         /\ At("inflight") # {})
          => /\ tasks' = tasks
             /\ \/ Len(last'.sent) = 1
                \/ /\ last'.sent = <<>>
                   /\ Dropped(last'.event, allowed_channel_ids, JoinTokens \cup LeaveTokens)]_vars

\* the reply of a session of a guild channel, begun on the second ChatSession
\* object, has just been sent while the call of a direct conversation on the
\* first is still in flight
C15_Witness ==
  /\ \E c \in GuildChannelIds : Delivered(c) /\ last.sent[1].text = GENERATED
  /\ started = 2
  /\ \E slow \in At("inflight") : slow.channel.type = "DMChannel" /\ slow.chat = 1
  /\ \A k \in ServedKeys : k \in DOMAIN _sessions /\ _sessions[k] = 2

\* the message is in a guild channel outside the registry and its normalized
\* body is no join or leave token
Unregistered(message, allowed) ==
  /\ message.channel.type # "DMChannel"
  /\ message.channel.id \notin allowed
  /\ Lower(_clean_prompt(message)) \notin JoinTokens \cup LeaveTokens

\* C16: a message in a guild channel that is not in the registry, whose
\* normalized body is no join or leave token, is handled without a reply and
\* without a generation request, and leaves the registry and the session
\* store as they were.
C16_SilentDropFrame ==
  [][(last'.op = "on_message" /\ Unregistered(last'.event, allowed_channel_ids))
       => /\ last'.sent = <<>>
          /\ UNCHANGED <<allowed_channel_ids, _sessions, started, tasks, returned>>]_vars

\* a prompt of a human sender has just been dropped in an unregistered guild
\* channel while the store holds a session of that channel
C16_Witness ==
  /\ last.op = "on_message"
  /\ ~last.event.bot
  /\ Unregistered(last.event, allowed_channel_ids)
  /\ _clean_prompt(last.event) = <<"Hi">>
  /\ last.sent = <<>>
  /\ SessionId(last.event) \in DOMAIN _sessions

C18_DirectCommandRejected ==
  [][(/\ TextCommand(last', JoinTokens \cup LeaveTokens)
      /\ last'.event.channel.type = "DMChannel")
       => /\ last'.sent = <<Out("send", last'.event.channel.id, TEXT_CMD_DM, <<>>)>>
          /\ UNCHANGED <<allowed_channel_ids, _sessions, started, tasks, returned>>]_vars

\* a leave command has just been rejected in a direct conversation that has
\* a stored session and a call in flight, while a guild channel is registered
C18_Witness ==
  /\ TextCommand(last, LeaveTokens)
  /\ last.event.channel.type = "DMChannel"
  /\ last.sent = <<Out("send", last.event.channel.id, TEXT_CMD_DM, <<>>)>>
  /\ SessionId(last.event) \in DOMAIN _sessions
  /\ InFlight(SessionId(last.event)) # {}
  /\ allowed_channel_ids # {}

\* a call for session id k is in flight and the store holds no session for k:
\* a reset was processed after the call had started
Raced(k) == InFlight(k) # {} /\ k \notin DOMAIN _sessions

\* C19: a reset command processed while a call for its session id is in
\* flight leaves no session stored for it and leaves the suspended
\* invocations as they are; the return of a call and the resumption after it
\* store nothing; the resumed invocation of a call that succeeded sends the
\* call's text as its reply; and a call of a served session that a reset has
\* raced is followed by the delivery of a reply in its channel.
C19_ResetRacesCall ==
  /\ [][/\ \A k \in SessionIds :
             (ResetDone(k)' /\ InFlight(k) # {})
               => /\ k \notin DOMAIN _sessions'
                  /\ tasks' = tasks
                  /\ Raced(k)'
        /\ last'.op \in {"_invoke", "deliver"} => _sessions' = _sessions
        /\ last'.op = "deliver" =>
             \A task \in Left :
               task.ok => /\ Len(last'.sent) = 1
                          /\ last'.sent[1].text = GENERATED
                          /\ last'.sent[1].body = task.reply
                          /\ last'.sent[1].channel = task.channel.id]_vars
  /\ \A c \in GuildChannelIds, u \in Users : Raced(ChannelKey(c, u)) ~> Delivered(c)

\* a reset has just been acknowledged for a session id whose call, begun on
\* the removed session, is still in flight
C19_Witness ==
  \E k \in SessionIds :
    /\ ResetDone(k)
    /\ Raced(k)
    /\ \A task \in InFlight(k) : task.chat = started

\* C20: a join or leave command, text token or slash command, leaves the
\* session store and the suspended invocations as they were; a reset message
\* in a guild channel that is not registered removes nothing from the store;
\* and a generation request for a session id that has a stored session runs
\* on that session, creating none.
C20_AdminKeepsSessions ==
  [][/\ (\/ last'.op \in {"register_channel", "unregister_channel"}
         \/ TextCommand(last', JoinTokens \cup LeaveTokens))
          => UNCHANGED <<_sessions, started, tasks>>
     /\ (/\ TextCommand(last', ResetTokens)
         /\ Unregistered(last'.event, allowed_channel_ids))
          => UNCHANGED <<_sessions, started>>
     /\ last'.op = "generate" =>
          \A task \in Entered :
            task.session_id \in DOMAIN _sessions
              => /\ task.chat = _sessions[task.session_id]
                 /\ UNCHANGED <<_sessions, started>>]_vars

\* a reset message has just been dropped in a guild channel that was
\* deregistered after a session of it had been stored, and the session is
\* still there
C20_Witness ==
  /\ TextCommand(last, ResetTokens)
  /\ Unregistered(last.event, allowed_channel_ids)
  /\ SessionId(last.event) \in DOMAIN _sessions
  /\ _sessions[SessionId(last.event)] = 1

====
